---- MODULE Spec2Model ----
(***************************************************************************)
(* Model of create_fpga_project.py: the configuration parser               *)
(* (parse_config), the two text generators (generate_rtl_top,              *)
(* generate_tb_top) and the orchestrator (main).                           *)
(*                                                                         *)
(* A Python str is modelled as a sequence of tokens.  A token is either    *)
(* one of the characters the parser looks at ("[", "]", ":", "=", "#",     *)
(* " ", a sign, a decimal digit) or a word: a run of characters none of    *)
(* which is one of these.  "clk" is <<"clk">>, the empty string is <<>>,   *)
(* "a : 16" is <<"a", " ", ":", " ", "1", "6">>.  In the generated text a  *)
(* fixed piece of a template is one token.                                 *)
(***************************************************************************)
EXTENDS Integers, Sequences, FiniteSets, TLC

VARIABLES
    \* parse_config, one line at a time
    pc,               \* "reading" | "returned" | "exited"
    content,          \* dict: section name -> dict
    current_section,  \* str or None
    line_num,         \* number of the line last read (enumerate(f, 1))
    line,             \* the line last read, as read from the file
    err,              \* the sys.exit of parse_config, or NoError
    cfg,              \* the descriptor parse_config returned, or NoCfg
    \* the generators, applied to one port list
    module_name,
    ports,
    rtl_text,
    tb_text,
    \* main, run after run over one file system
    fs,               \* [dirs: set of paths, files: path -> content]
    argv,             \* the configuration file of the last run
    exit_status,      \* exit status of the last run
    stdout            \* what the last run printed about the RTL stub

vars == <<pc, content, current_section, line_num, line, err, cfg,
          module_name, ports, rtl_text, tb_text,
          fs, argv, exit_status, stdout>>

(***************************************************************************)
(* Bounds                                                                  *)
(***************************************************************************)
MaxLines == 8
MaxPorts == 2
MaxGenPorts == 3

(***************************************************************************)
(* str operations                                                          *)
(***************************************************************************)
Str(w) == <<w>>

RECURSIVE lstrip(_)
lstrip(s) == IF s # <<>> /\ Head(s) = " " THEN lstrip(Tail(s)) ELSE s

RECURSIVE rstrip(_)
rstrip(s) ==
    IF s # <<>> /\ s[Len(s)] = " " THEN rstrip(SubSeq(s, 1, Len(s) - 1)) ELSE s

\* str.strip()
strip(s) == rstrip(lstrip(s))

\* str.startswith / str.endswith for a one-character argument
startswith(s, c) == s # <<>> /\ Head(s) = c
endswith(s, c) == s # <<>> /\ s[Len(s)] = c

\* c in s, for a one-character c
contains(s, c) == \E i \in 1..Len(s) : s[i] = c

\* s.find(c) + 1: the position of the first c, 0 when there is none
find(s, c) ==
    IF contains(s, c)
    THEN CHOOSE i \in 1..Len(s) : s[i] = c /\ \A j \in 1..(i - 1) : s[j] # c
    ELSE 0

\* re.split(c, s, maxsplit=n) and s.split(c, n): at most n splits, at the
\* first n occurrences of c
RECURSIVE split(_, _, _)
split(s, c, n) ==
    IF n = 0 \/ find(s, c) = 0
    THEN <<s>>
    ELSE <<SubSeq(s, 1, find(s, c) - 1)>>
         \o split(SubSeq(s, find(s, c) + 1, Len(s)), c, n - 1)

\* the number of c in s
RECURSIVE count(_, _)
count(s, c) ==
    IF s = <<>> THEN 0
    ELSE (IF Head(s) = c THEN 1 ELSE 0) + count(Tail(s), c)

\* int(s) and str(n).  A decimal digit is a token of its own, and so is a
\* sign: "16" is <<"1", "6">>, "-1" is <<"-", "1">>.
Digits == <<"0", "1", "2", "3", "4", "5", "6", "7", "8", "9">>
is_digit(t) == \E d \in 1..Len(Digits) : Digits[d] = t
digit_value(t) == (CHOOSE d \in 1..Len(Digits) : Digits[d] = t) - 1

unsigned(s) == IF s # <<>> /\ Head(s) \in {"-", "+"} THEN Tail(s) ELSE s

\* int(s) raises ValueError unless s is an optional sign and then digits
is_int(s) == unsigned(s) # <<>> /\ \A i \in 1..Len(unsigned(s)) : is_digit(unsigned(s)[i])

RECURSIVE digits_value(_)
digits_value(s) ==
    IF s = <<>> THEN 0
    ELSE 10 * digits_value(SubSeq(s, 1, Len(s) - 1)) + digit_value(s[Len(s)])

int(s) ==
    IF Head(s) = "-" THEN 0 - digits_value(unsigned(s))
    ELSE digits_value(unsigned(s))

RECURSIVE digits_of(_)
digits_of(n) ==
    IF n < 10 THEN <<Digits[n + 1]>>
    ELSE digits_of(n \div 10) \o <<Digits[(n % 10) + 1]>>

\* str(n), as an f-string formats an int
str_int(n) == IF n < 0 THEN <<"-">> \o digits_of(0 - n) ELSE digits_of(n)

(***************************************************************************)
(* dict operations                                                         *)
(***************************************************************************)
EmptyDict == [k \in {} |-> <<>>]
dict_set(d, k, v) == [x \in (DOMAIN d) \cup {k} |-> IF x = k THEN v ELSE d[x]]

None == <<"<None>">>
NoError == [kind |-> "none", line |-> 0, what |-> <<>>]
NoCfg == [project_name |-> <<>>, board |-> <<>>, top_module |-> <<>>,
          ports |-> <<>>]

\* sys.exit(message): the kind of message, the line number in it (0 when the
\* message names no line) and the section or key it names
Exit(kind, n, what) == [kind |-> kind, line |-> n, what |-> what]

(***************************************************************************)
(* parse_config: the body of the loop over the lines                       *)
(***************************************************************************)
is_skipped(l) == l = <<>> \/ startswith(l, "#")
is_header(l) == startswith(l, "[") /\ endswith(l, "]")
header_name(l) == strip(SubSeq(l, 2, Len(l) - 1))

\* the parts of a port line
port_parts(l) ==
    LET raw == split(l, ":", 2)
    IN  [i \in 1..Len(raw) |-> strip(raw[i])]

\* The port branch
port_line(c, cur, n, l) ==
    LET parts == port_parts(l)
        name == parts[1]
        direction == parts[2]
        width_str == parts[3]
        old == IF Str("ports") \in DOMAIN c[cur] THEN c[cur][Str("ports")]
               ELSE <<>>
        rec == [name |-> name, direction |-> direction,
                width |-> int(width_str)]
    IN  IF Len(parts) # 3
        THEN [content |-> c, cur |-> cur,
              err |-> Exit("MalformedPortRecord", n, <<>>)]
        ELSE IF ~is_int(width_str)
        THEN [content |-> c, cur |-> cur,
              err |-> Exit("InvalidWidth", n, <<>>)]
        ELSE IF direction \notin {Str("input"), Str("output"), Str("inout")}
        THEN [content |-> c, cur |-> cur,
              err |-> Exit("InvalidDirection", n, <<>>)]
        ELSE [content |->
                  dict_set(c, cur,
                           dict_set(c[cur], Str("ports"), Append(old, rec))),
              cur |-> cur, err |-> NoError]

\* The key = value branch
key_value_line(c, cur, n, l) ==
    LET kv == split(l, "=", 1)
        key == strip(kv[1])
        val == strip(kv[2])
    IN  [content |-> dict_set(c, cur, dict_set(c[cur], key, val)),
         cur |-> cur, err |-> NoError]

\* One iteration of the loop: raw is the line as read, n its number
process_line(c, cur, n, raw) ==
    LET l == strip(raw)
    IN  IF is_skipped(l)
        THEN [content |-> c, cur |-> cur, err |-> NoError]
        ELSE IF is_header(l)
        THEN [content |-> dict_set(c, header_name(l), EmptyDict),
              cur |-> header_name(l), err |-> NoError]
        ELSE IF cur = None
        THEN [content |-> c, cur |-> cur,
              err |-> Exit("LineOutsideSection", n, <<>>)]
        ELSE IF cur = Str("port")
        THEN port_line(c, cur, n, l)
        ELSE IF contains(l, "=")
        THEN key_value_line(c, cur, n, l)
        ELSE [content |-> c, cur |-> cur,
              err |-> Exit("UnparsableLine", n, <<>>)]

(***************************************************************************)
(* parse_config: the checks after the loop                                 *)
(***************************************************************************)
required_sections == <<Str("project"), Str("module"), Str("port")>>

missing_sections(c) ==
    {i \in 1..Len(required_sections) : required_sections[i] \notin DOMAIN c}

\* A loop that goes on after a missing section and reports the last one
last_missing(c) ==
    required_sections[CHOOSE i \in missing_sections(c) :
                          \A j \in missing_sections(c) : j <= i]

\* The loop over required_sections exits at the first one that is missing
first_missing(c) ==
    required_sections[CHOOSE i \in missing_sections(c) :
                          \A j \in missing_sections(c) : i <= j]

check_sections(c) ==
    IF missing_sections(c) # {}
    THEN Exit("SectionMissing", 0, first_missing(c))
    ELSE NoError

check_project(c) ==
    LET proj == c[Str("project")]
    IN  IF Str("name") \notin DOMAIN proj
        THEN Exit("KeyMissing", 0, Str("name"))
        ELSE IF Str("board") \notin DOMAIN proj
        THEN Exit("KeyMissing", 0, Str("board"))
        ELSE IF proj[Str("board")] \notin {Str("basys3"), Str("nexys_a7")}
        THEN Exit("InvalidBoard", 0, <<>>)
        ELSE NoError

check_module(c) ==
    IF Str("name") \notin DOMAIN c[Str("module")]
    THEN Exit("KeyMissing", 0, Str("name"))
    ELSE NoError

check_ports(c) ==
    LET port_sec == c[Str("port")]
    IN  IF Str("ports") \notin DOMAIN port_sec \/ port_sec[Str("ports")] = <<>>
        THEN Exit("EmptyPortList", 0, <<>>)
        ELSE NoError

descriptor(c) ==
    [project_name |-> c[Str("project")][Str("name")],
     board |-> c[Str("project")][Str("board")],
     top_module |-> c[Str("module")][Str("name")],
     ports |-> c[Str("port")][Str("ports")]]

validate(c) ==
    IF check_sections(c) # NoError
    THEN [err |-> check_sections(c), cfg |-> NoCfg]
    ELSE IF check_project(c) # NoError
    THEN [err |-> check_project(c), cfg |-> NoCfg]
    ELSE IF check_module(c) # NoError
    THEN [err |-> check_module(c), cfg |-> NoCfg]
    ELSE IF check_ports(c) # NoError
    THEN [err |-> check_ports(c), cfg |-> NoCfg]
    ELSE [err |-> NoError, cfg |-> descriptor(c)]

\* parse_config on a whole file
RECURSIVE parse_lines(_, _, _, _)
parse_lines(c, cur, n, f) ==
    IF f = <<>>
    THEN validate(c)
    ELSE LET r == process_line(c, cur, n + 1, Head(f))
         IN  IF r.err # NoError
             THEN [err |-> r.err, cfg |-> NoCfg]
             ELSE parse_lines(r.content, r.cur, n + 1, Tail(f))

parse_config(f) == parse_lines(EmptyDict, None, 0, f)

(***************************************************************************)
(* The lines a configuration file is made of                               *)
(***************************************************************************)
BlankLine == <<" ">>
CommentLine == <<"#", " ", "note">>
ProjectHeader == <<"[", "project", "]">>
ModuleHeader == <<"[", "module", "]">>
PortHeader == <<" ", "[", " ", "port", " ", "]">>
NameFoo == <<"name", " ", "=", " ", "foo">>
BoardBasys3 == <<"board", "=", "basys3">>
BoardUnknown == <<"board", "=", "unknown">>
PortA == <<"a", " ", ":", " ", "input", " ", ":", " ", "1">>
PortNoName == <<" ", ":", "output", ":", "1", "6">>
PortWidth0 == <<"a", ":", "input", ":", "0">>
PortWidthNeg == <<"b", ":", "inout", ":", "-", "1">>
PortWidthWord == <<"a", ":", "input", ":", "x">>
PortBadDirection == <<"a", ":", "bad", ":", "1">>
PortOneColon == <<"a", ":", "input">>
PortThreeColons == <<"a", ":", "input", ":", "1", ":", "2">>
JunkLine == <<"junk">>

Lines ==
    {BlankLine, CommentLine, ProjectHeader, ModuleHeader, PortHeader,
     NameFoo, BoardBasys3, BoardUnknown,
     PortA, PortNoName, PortWidth0, PortWidthNeg, PortWidthWord,
     PortBadDirection, PortOneColon, PortThreeColons, JunkLine}

(***************************************************************************)
(* What the specifications that do not use a variable keep it at            *)
(***************************************************************************)
NotGenerated == [kind |-> "none"]
EmptyFs == [dirs |-> {}, files |-> EmptyDict]

ParserIdle ==
    /\ pc = "idle"
    /\ content = EmptyDict
    /\ current_section = None
    /\ line_num = 0
    /\ line = <<>>
    /\ err = NoError
    /\ cfg = NoCfg

GeneratorsIdle ==
    /\ module_name = <<>>
    /\ ports = <<>>
    /\ rtl_text = NotGenerated
    /\ tb_text = NotGenerated

MainIdle ==
    /\ fs = EmptyFs
    /\ argv = <<>>
    /\ exit_status = 0
    /\ stdout = <<>>

parser_vars == <<pc, content, current_section, line_num, line, err, cfg>>
generator_vars == <<module_name, ports, rtl_text, tb_text>>
main_vars == <<fs, argv, exit_status, stdout>>

(***************************************************************************)
(* parse_config, line by line                                              *)
(***************************************************************************)
ports_of(c) ==
    IF Str("port") \in DOMAIN c /\ Str("ports") \in DOMAIN c[Str("port")]
    THEN c[Str("port")][Str("ports")]
    ELSE <<>>

ParseInit ==
    /\ pc = "reading"
    /\ content = EmptyDict
    /\ current_section = None
    /\ line_num = 0
    /\ line = <<>>
    /\ err = NoError
    /\ cfg = NoCfg
    /\ GeneratorsIdle
    /\ MainIdle

\* The loop reads the next line of the file
ReadLine ==
    /\ pc = "reading"
    /\ line_num < MaxLines
    /\ \E l \in Lines :
          LET r == process_line(content, current_section, line_num + 1, l)
          IN  /\ Len(ports_of(r.content)) <= MaxPorts
              /\ line' = l
              /\ line_num' = line_num + 1
              /\ content' = r.content
              /\ current_section' = r.cur
              /\ err' = r.err
              /\ pc' = IF r.err = NoError THEN "reading" ELSE "exited"
    /\ UNCHANGED <<cfg, generator_vars, main_vars>>

\* The file ends: the checks after the loop, and the return
EndOfFile ==
    /\ pc = "reading"
    /\ LET r == validate(content)
       IN  /\ err' = r.err
           /\ cfg' = r.cfg
           /\ pc' = IF r.err = NoError THEN "returned" ELSE "exited"
    /\ UNCHANGED <<content, current_section, line_num, line,
                   generator_vars, main_vars>>

ParseNext == ReadLine \/ EndOfFile

SpecParse == ParseInit /\ [][ParseNext]_vars

(***************************************************************************)
(* Properties of parse_config                                              *)
(***************************************************************************)
\* The line last read was handled by the port branch of the loop
LastLineInPortBranch ==
    /\ line_num >= 1
    /\ current_section = Str("port")
    /\ ~is_skipped(strip(line))
    /\ ~is_header(strip(line))

\* The checks after the loop have run
Validated == pc = "returned" \/ (pc = "exited" /\ err.line = 0)

\* C1: a line of the port section with fewer or more than two ":" makes the
\* parse fail with the malformed-port-record error, naming that line's number.
C1_WrongColonCountIsMalformed ==
    (LastLineInPortBranch /\ count(line, ":") # 2)
        => (pc = "exited" /\ err = Exit("MalformedPortRecord", line_num, <<>>))

\* C2: every port of a returned descriptor has width >= 1.
C2_ReturnedWidthsPositive ==
    pc = "returned" => \A i \in DOMAIN cfg.ports : cfg.ports[i].width >= 1

\* C3: in a returned descriptor every port name is non-empty and no two
\* ports share a name.
C3_ReturnedNamesNonEmptyUnique ==
    pc = "returned" =>
        /\ \A i \in DOMAIN cfg.ports : cfg.ports[i].name # <<>>
        /\ \A i, j \in DOMAIN cfg.ports :
              cfg.ports[i].name = cfg.ports[j].name => i = j

\* C4: a header for a section that was opened before continues that
\* section's mapping: reading the header discards none of its entries.
C4_ReopenKeepsEntries ==
    [][(/\ pc = "reading"
        /\ line_num' = line_num + 1
        /\ is_header(strip(line'))
        /\ header_name(strip(line')) \in DOMAIN content)
          => content'[header_name(strip(line'))]
                 = content[header_name(strip(line'))]]_vars

\* C9 as stated: after the checks, a document without a port section has
\* failed with the missing-section error naming port, one whose port section
\* holds no record has failed with the empty-port-list error, and no returned
\* descriptor has an empty port list.
C9_AsStated ==
    Validated =>
        /\ Str("port") \notin DOMAIN content
              => err = Exit("SectionMissing", 0, Str("port"))
        /\ (Str("port") \in DOMAIN content /\ ports_of(content) = <<>>)
              => err.kind = "EmptyPortList"
        /\ pc = "returned" => cfg.ports # <<>>

HasKey(c, sec, key) == sec \in DOMAIN c /\ key \in DOMAIN c[sec]

EarlierChecksPass(c) ==
    /\ \A i \in 1..Len(required_sections) : required_sections[i] \in DOMAIN c
    /\ HasKey(c, Str("project"), Str("name"))
    /\ HasKey(c, Str("project"), Str("board"))
    /\ c[Str("project")][Str("board")] \in {Str("basys3"), Str("nexys_a7")}
    /\ HasKey(c, Str("module"), Str("name"))

\* C9 as amended: after the checks, a document without a port section has
\* failed with the missing-section error, which names the first absent one of
\* project, module, port (so port when the other two are there); a document
\* that passes the checks on project and module and whose port section holds
\* no record has failed with the empty-port-list error; and no returned
\* descriptor has an empty port list.
C9_FirstFailingCheckWins ==
    Validated =>
        /\ Str("port") \notin DOMAIN content
              => /\ err.kind = "SectionMissing"
                 /\ err.line = 0
                 /\ err.what = IF Str("project") \notin DOMAIN content
                               THEN Str("project")
                               ELSE IF Str("module") \notin DOMAIN content
                               THEN Str("module")
                               ELSE Str("port")
        /\ (EarlierChecksPass(content) /\ ports_of(content) = <<>>)
              => err.kind = "EmptyPortList"
        /\ pc = "returned" => cfg.ports # <<>>

C9_Witness ==
    /\ pc = "exited"
    /\ Validated
    /\ EarlierChecksPass(content)
    /\ ports_of(content) = <<>>
    /\ err.kind = "EmptyPortList"

(***************************************************************************)
(* generate_rtl_top                                                        *)
(***************************************************************************)
select_direction(ps, d) == SelectSeq(ps, LAMBDA p : p.direction = d)

\* len(direction), for the three directions parse_config lets through
len_direction(d) == IF d = Str("output") THEN 6 ELSE 5

spaces(n) == [i \in 1..n |-> " "]

\* f"[{p['width']-1}:0]": the vector suffix
vec_suffix(w) == <<"[">> \o str_int(w - 1) \o <<":", "0", "]">>

port_decl(p) ==
    LET vec == IF p.width > 1 THEN vec_suffix(p.width) ELSE <<>>
        spacing == spaces(6 - len_direction(p.direction))
    IN  <<"  ">> \o p.direction \o spacing \o vec \o <<" ">> \o p.name

map_decl(ps) == [i \in 1..Len(ps) |-> port_decl(ps[i])]

\* A declaration block that puts the outputs before the inouts
all_decls_outputs_first(ps) ==
    map_decl(select_direction(ps, Str("input")))
    \o map_decl(select_direction(ps, Str("output")))
    \o map_decl(select_direction(ps, Str("inout")))

\* The declaration block: one line per port, joined with ",\n"
all_decls(ps) ==
    map_decl(select_direction(ps, Str("input")))
    \o map_decl(select_direction(ps, Str("inout")))
    \o map_decl(select_direction(ps, Str("output")))

\* The text: the template with its two holes filled
generate_rtl_top(m, ps) ==
    [template |-> "rtl_top", module_name |-> m, port_list |-> all_decls(ps)]

(***************************************************************************)
(* generate_tb_top                                                         *)
(***************************************************************************)
\* A detection that looks at the name alone
has_input_any_direction(ps, n) == \E i \in 1..Len(ps) : ps[i].name = Str(n)

\* any(p["name"] == n and p["direction"] == "input" for p in ports)
has_input(ps, n) ==
    \E i \in 1..Len(ps) : ps[i].name = Str(n) /\ ps[i].direction = Str("input")

tb_decl(p) ==
    LET vec == IF p.width > 1 THEN vec_suffix(p.width) \o <<" ">> ELSE <<>>
        sig_type == IF p.direction = Str("input") THEN "reg" ELSE "wire"
    IN  <<"  ", sig_type, " ">> \o vec \o p.name \o <<";">>

decl_lines(ps) == [i \in 1..Len(ps) |-> tb_decl(ps[i])]

ClkLogic == <<"  initial begin clk = 0; forever #5 clk = ~clk; end\n">>
RstLogic == <<"  initial begin rst_n = 0; #20 rst_n = 1; end\n">>

clk_logic(ps) == IF has_input(ps, "clk") THEN ClkLogic ELSE <<>>
rst_logic(ps) == IF has_input(ps, "rst_n") THEN RstLogic ELSE <<>>

connection(p) == <<"    ", ".">> \o p.name \o <<"(">> \o p.name \o <<")">>

\* One line per port, joined with ",\n"
port_inst(ps) == [i \in 1..Len(ps) |-> connection(ps[i])]

stimulus_inputs(ps) ==
    SelectSeq(ps, LAMBDA p : /\ p.direction = Str("input")
                             /\ p.name \notin {Str("clk"), Str("rst_n")})

assign(p) ==
    <<"    ">> \o p.name \o <<" ", "=", " ">> \o str_int(p.width) \o <<"'d0;">>

DelayLine == <<"    ", "#100;">>
DisplayLine == <<"    ", "$display(\"okkk\");">>
FinishLine == <<"    ", "$finish;">>

\* The stimulus, as its lines: the assignments and then the delay, or ""
stimulus(ps) ==
    LET inputs == stimulus_inputs(ps)
    IN  IF inputs # <<>>
        THEN [i \in 1..Len(inputs) |-> assign(inputs[i])] \o <<DelayLine>>
        ELSE <<>>

\* The text: the template with its holes filled.  initial_block is the body
\* of the last initial block, line by line.
generate_tb_top(m, ps) ==
    [template |-> "tb_top",
     decl_lines |-> decl_lines(ps),
     clk_logic |-> clk_logic(ps),
     rst_logic |-> rst_logic(ps),
     module_name |-> m,
     port_inst |-> port_inst(ps),
     initial_block |-> stimulus(ps) \o <<DisplayLine, FinishLine>>]

(***************************************************************************)
(* The generators, applied to the port lists parse_config can return       *)
(***************************************************************************)
Port(n, d, w) == [name |-> Str(n), direction |-> Str(d), width |-> w]

GenPorts ==
    {Port("clk", "input", 1), Port("clk", "output", 1),
     Port("CLK", "input", 1), Port("rst_n", "input", 1),
     Port("rst_n", "inout", 1), Port("d", "input", 8),
     Port("d", "inout", 16), Port("q", "output", 2)}

GenPortLists ==
    UNION {[1..n -> GenPorts] : n \in 1..MaxGenPorts}

GenInit ==
    /\ module_name = Str("top")
    /\ ports \in GenPortLists
    /\ rtl_text = NotGenerated
    /\ tb_text = NotGenerated
    /\ ParserIdle
    /\ MainIdle

GenerateRtlTop ==
    /\ rtl_text = NotGenerated
    /\ rtl_text' = generate_rtl_top(module_name, ports)
    /\ UNCHANGED <<module_name, ports, tb_text, parser_vars, main_vars>>

GenerateTbTop ==
    /\ tb_text = NotGenerated
    /\ tb_text' = generate_tb_top(module_name, ports)
    /\ UNCHANGED <<module_name, ports, rtl_text, parser_vars, main_vars>>

GenNext == GenerateRtlTop \/ GenerateTbTop

SpecGen == GenInit /\ [][GenNext]_vars

(***************************************************************************)
(* Properties of the generators                                            *)
(***************************************************************************)
NoInputPorts == \A i \in 1..Len(ports) : ports[i].direction # Str("input")

IsAssignment(l) == contains(l, "=")

\* C5: for a port list without input ports the stimulus holds no assignment
\* but the delay still stands before the completion message and the stop.
C5_NoInputsStillDelay ==
    (tb_text # NotGenerated /\ NoInputPorts) =>
        LET b == tb_text.initial_block
        IN  /\ \A i \in 1..Len(b) : ~IsAssignment(b[i])
            /\ \E i, j, k \in 1..Len(b) :
                  /\ i < j /\ j < k
                  /\ b[i] = DelayLine
                  /\ b[j] = DisplayLine
                  /\ b[k] = FinishLine

\* The place of a direction in the module stub: inputs, inouts, outputs
group(d) ==
    IF d = Str("input") THEN 1 ELSE IF d = Str("inout") THEN 2 ELSE 3

\* Port i of ps stands before port j of ps in the module stub
Before(ps, i, j) ==
    \/ group(ps[i].direction) < group(ps[j].direction)
    \/ (group(ps[i].direction) = group(ps[j].direction) /\ i < j)

Bijections(n) ==
    {f \in [1..n -> 1..n] : \A i, j \in 1..n : f[i] = f[j] => i = j}

\* C8: the module stub declares every port once, inputs then inouts then
\* outputs, each group in file order; the testbench declares every port once
\* and connects every port once, both in file order.
C8_DeclarationOrder ==
    /\ rtl_text # NotGenerated =>
          /\ Len(rtl_text.port_list) = Len(ports)
          /\ \E f \in Bijections(Len(ports)) :
                /\ \A i \in 1..Len(ports) :
                      rtl_text.port_list[f[i]] = port_decl(ports[i])
                /\ \A i, j \in 1..Len(ports) :
                      Before(ports, i, j) => f[i] < f[j]
    /\ tb_text # NotGenerated =>
          /\ Len(tb_text.decl_lines) = Len(ports)
          /\ Len(tb_text.port_inst) = Len(ports)
          /\ \A i \in 1..Len(ports) :
                /\ tb_text.decl_lines[i] = tb_decl(ports[i])
                /\ tb_text.port_inst[i] = connection(ports[i])

\* Two inputs with an output and an inout between them, in an order the
\* module stub has to change
C8_Witness ==
    /\ rtl_text # NotGenerated
    /\ tb_text # NotGenerated
    /\ Len(ports) = 3
    /\ ports[1].direction = Str("output")
    /\ ports[2].direction = Str("inout")
    /\ ports[3].direction = Str("input")
    /\ rtl_text.port_list # tb_text.decl_lines

\* C10: the clock process is emitted exactly when a port is named clk and is
\* an input, the reset process exactly when a port is named rst_n and is an
\* input.
C10_ClockResetDetection ==
    tb_text # NotGenerated =>
        /\ tb_text.clk_logic = ClkLogic
              <=> \E i \in 1..Len(ports) :
                     ports[i].name = <<"clk">> /\ ports[i].direction = <<"input">>
        /\ tb_text.clk_logic # ClkLogic => tb_text.clk_logic = <<>>
        /\ tb_text.rst_logic = RstLogic
              <=> \E i \in 1..Len(ports) :
                     ports[i].name = <<"rst_n">> /\ ports[i].direction = <<"input">>
        /\ tb_text.rst_logic # RstLogic => tb_text.rst_logic = <<>>

\* A clk that is an output beside a CLK that is an input: no clock process;
\* an rst_n that is an input: the reset process
C10_Witness ==
    /\ tb_text # NotGenerated
    /\ \E i \in 1..Len(ports) : ports[i] = Port("clk", "output", 1)
    /\ \E i \in 1..Len(ports) : ports[i] = Port("CLK", "input", 1)
    /\ \E i \in 1..Len(ports) : ports[i] = Port("rst_n", "input", 1)
    /\ tb_text.clk_logic = <<>>
    /\ tb_text.rst_logic = RstLogic

(***************************************************************************)
(* main                                                                    *)
(*                                                                         *)
(* A path is the sequence of its components, each a str; the paths main    *)
(* uses after os.chdir(proj_name) start with proj_name.                    *)
(***************************************************************************)
exists(f, path) == path \in f.dirs \/ path \in DOMAIN f.files

\* os.makedirs(path, exist_ok=True), for a path whose parent is there
makedirs(f, path) == [f EXCEPT !.dirs = @ \cup {path}]

\* with open(path, "w") as f: f.write(text)
write(f, path, text) == [f EXCEPT !.files = dict_set(@, path, text)]

rtl_top_path(c) ==
    <<c.project_name, Str("rtl"), c.top_module \o <<".sv">> >>
tb_top_path(c) == <<c.project_name, Str("tb"), Str("tb_top.sv")>>

Warning == <<"RTL top exists, skipped">>

\* A main that writes the module stub whether or not it is there
write_rtl_top_always(f, c) ==
    [fs |-> write(f, rtl_top_path(c), generate_rtl_top(c.top_module, c.ports)),
     stdout |-> <<>>]

\* The module stub: written only when nothing is at its path
write_rtl_top(f, c) ==
    IF ~exists(f, rtl_top_path(c))
    THEN [fs |-> write(f, rtl_top_path(c),
                       generate_rtl_top(c.top_module, c.ports)),
          stdout |-> <<>>]
    ELSE [fs |-> f, stdout |-> Warning]

\* The directories of the project
make_directories(f, c) ==
    LET d0 == makedirs(f, <<c.project_name>>)
        d1 == makedirs(d0, <<c.project_name, Str("rtl")>>)
        d2 == makedirs(d1, <<c.project_name, Str("tb")>>)
        d3 == makedirs(d2, <<c.project_name, Str("tb"), Str("sim")>>)
        d4 == makedirs(d3, <<c.project_name, Str("constraints")>>)
    IN  makedirs(d4, <<c.project_name, Str("scripts")>>)

\* board.upper(), for the two boards parse_config lets through
upper(b) == IF b = Str("basys3") THEN Str("BASYS3") ELSE Str("NEXYS_A7")

\* The files written after the module stub
write_rest(f, c) ==
    LET f1 == write(f, tb_top_path(c), generate_tb_top(c.top_module, c.ports))
        f2 == write(f1, <<c.project_name, Str("constraints"),
                          c.board \o <<".xdc">> >>,
                    <<"# ">> \o upper(c.board) \o <<" pin template\n">>)
        f3 == write(f2, <<c.project_name, Str(".gitignore")>>,
                    <<"/build/\n/tb/sim/\n...">>)
        f4 == write(f3, <<c.project_name, Str("CMakeLists.txt")>>,
                    [template |-> "cmake", proj_name |-> c.project_name,
                     board |-> c.board])
    IN  write(f4, <<c.project_name, Str("scripts"),
                    Str("build_bitstream.tcl")>>,
              [template |-> "tcl", top_module |-> c.top_module])

\* main after parse_config has returned c
write_project(f, c) ==
    LET f1 == write(make_directories(f, c),
                    <<c.project_name, Str("tb"), Str("sim"),
                      Str(".gitignore")>>,
                    <<"*\n!.gitignore\n">>)
        r == write_rtl_top(f1, c)
    IN  [fs |-> write_rest(r.fs, c), exit_status |-> 0, stdout |-> r.stdout,
         err |-> NoError, cfg |-> c]

\* A main that makes the output directories before it reads the configuration
after_exit_dirs_made(f, e) ==
    [fs |-> makedirs(f, <<Str("tb"), Str("sim")>>), exit_status |-> 1,
     stdout |-> <<>>, err |-> e, cfg |-> NoCfg]

\* sys.exit(message) in parse_config ends the run: status 1, nothing written
after_exit(f, e) ==
    [fs |-> f, exit_status |-> 1, stdout |-> <<>>, err |-> e, cfg |-> NoCfg]

\* One run of main on the configuration file config over the file system f
main(f, config) ==
    LET r == parse_config(config)
    IN  IF r.err # NoError
        THEN after_exit(f, r.err)
        ELSE write_project(f, r.cfg)

(***************************************************************************)
(* Run after run of main over one file system                              *)
(***************************************************************************)
BoardNexys == <<"board", " ", "=", " ", "nexys_a7">>
NameAlt == <<"name", "=", "alt">>
PortClk == <<"clk", ":", "input", ":", "1">>
PortQ == <<"q", " ", ":", " ", "output", " ", ":", " ", "1", "6">>

Config(board_line, top_line, port_lines) ==
    <<ProjectHeader, NameFoo, board_line, ModuleHeader, top_line, PortHeader>>
    \o port_lines

Configs ==
    {Config(b, t, ps) :
        b \in {BoardBasys3, BoardNexys, BoardUnknown},
        t \in {NameFoo, NameAlt},
        ps \in {<<PortClk, PortA>>, <<PortQ>>, <<>>, <<PortThreeColons>>}}
    \cup {<<ProjectHeader, NameFoo, BoardBasys3, ModuleHeader, NameFoo>>}

HandWritten == [template |-> "none", text |-> <<"module foo (); endmodule">>]

\* The file system before the first run: empty, or with a module stub that
\* somebody wrote
InitialFs ==
    {EmptyFs,
     [dirs |-> {<<Str("foo")>>, <<Str("foo"), Str("rtl")>>},
      files |-> dict_set(EmptyDict,
                         <<Str("foo"), Str("rtl"), <<"foo", ".sv">> >>,
                         HandWritten)]}

RunInit ==
    /\ fs \in InitialFs
    /\ argv = <<>>
    /\ exit_status = 0
    /\ stdout = <<>>
    /\ ParserIdle
    /\ GeneratorsIdle

\* python create_fpga_project.py config
Main ==
    \E config \in Configs :
        \E r \in {main(fs, config)} :
            /\ argv' = config
            /\ err' = r.err
            /\ cfg' = r.cfg
            /\ pc' = IF r.err = NoError THEN "returned" ELSE "exited"
            /\ fs' = r.fs
            /\ exit_status' = r.exit_status
            /\ stdout' = r.stdout
            /\ UNCHANGED <<content, current_section, line_num, line,
                           generator_vars>>

RunNext == Main

SpecRun == RunInit /\ [][RunNext]_vars

(***************************************************************************)
(* Properties of main                                                      *)
(***************************************************************************)
\* C6: a run whose configuration fails a check of parse_config ends with a
\* non-zero status and leaves the file system as it found it.
C6_FailedRunWritesNothing ==
    [][(pc' = "exited" /\ err' # NoError)
          => (fs' = fs /\ exit_status' # 0)]_vars

\* A failed run (board = unknown) after a successful one: the files of the
\* successful run are there, and the failed run has status 1
C6_Witness ==
    /\ pc = "exited"
    /\ err.kind = "InvalidBoard"
    /\ exit_status = 1
    /\ exists(fs, <<Str("foo"), Str("tb"), Str("tb_top.sv")>>)

\* C7: a successful run that finds something at rtl/<top_module>.sv leaves
\* that file as it is and warns; every successful run leaves at tb/tb_top.sv
\* the testbench generated from its own port list.
C7_StubKeptTestbenchRewritten ==
    [][pc' = "returned" =>
          /\ exists(fs, rtl_top_path(cfg')) =>
                /\ rtl_top_path(cfg') \in DOMAIN fs.files
                /\ fs'.files[rtl_top_path(cfg')] = fs.files[rtl_top_path(cfg')]
                /\ stdout' = Warning
          /\ tb_top_path(cfg') \in DOMAIN fs'.files
          /\ fs'.files[tb_top_path(cfg')]
                = generate_tb_top(cfg'.top_module, cfg'.ports)]_vars

\* After a successful run: the module stub is not the one this run's port
\* list gives, the run has warned, and the testbench is this run's
C7_Witness ==
    /\ pc = "returned"
    /\ exit_status = 0
    /\ stdout = Warning
    /\ fs.files[rtl_top_path(cfg)] # generate_rtl_top(cfg.top_module, cfg.ports)
    /\ fs.files[rtl_top_path(cfg)] # HandWritten
    /\ fs.files[tb_top_path(cfg)] = generate_tb_top(cfg.top_module, cfg.ports)

====
